---- MODULE Spec2Model ----
(***************************************************************************)
(* Diet tracker (app.py): a script that is re-executed top to bottom on    *)
(* every user interaction.  One run ensures the three worksheets, handles  *)
(* the one button that was pressed (set goal, add food, save note) and     *)
(* renders the daily summary.  The spreadsheet is the only state that      *)
(* outlives a run.  Every remote call may raise.                           *)
(*                                                                         *)
(* Numbers are held in tenths (the resolution of round(x, 1)); the form's  *)
(* float inputs are held in hundredths before rounding.                    *)
(***************************************************************************)
EXTENDS Integers, Sequences, FiniteSets, TLC

\* Number of script runs explored.
MaxRuns == 2

\* Number of remote calls that raise, over all runs.
MaxFaults == 1

------------------------------------------------------------------------------
\* Cells of a worksheet

Str(x) == [kind |-> "str", s |-> x, n |-> 0]
Num(x) == [kind |-> "num", s |-> "", n |-> x]
None == [kind |-> "none", s |-> "", n |-> 0]

\* A whole number typed into an integer widget, as a cell (tenths).
Whole(x) == Num(10 * x)

HeaderRow(h) == [i \in DOMAIN h |-> Str(h[i])]

MEALS_SHEET == "Meals"
GOALS_SHEET == "Goals"
NOTES_SHEET == "Daily_Notes"
SheetNames == {MEALS_SHEET, GOALS_SHEET, NOTES_SHEET}

MealsHeader ==
    <<"date", "time", "food_name", "grams", "protein_g", "carbs_g", "fat_g",
      "calories", "daily_calorie_goal", "daily_protein_goal", "notes">>
GoalsHeader == <<"month_year", "calorie_goal", "protein_goal", "created_at">>
NotesHeader == <<"date", "note", "created_at">>

HeaderOf(name) ==
    CASE name = MEALS_SHEET -> MealsHeader
      [] name = GOALS_SHEET -> GoalsHeader
      [] name = NOTES_SHEET -> NotesHeader

\* The column names the daily summary reads, laid out so that the cells
\* add-food writes by position land under them: a Meals worksheet that was
\* in the spreadsheet before the program ran (ensure_worksheet takes an
\* existing worksheet as it is, whatever its first row).
SummaryColumnsHeader ==
    <<"date", "time", "food_name", "fiber_g", "protein_g", "carbs_g", "fat_g",
      "calories_kcal", "daily_calorie_goal", "daily_protein_goal", "notes">>

------------------------------------------------------------------------------
\* Dates and their formatting

Pad2(n) == IF n < 10 THEN "0" \o ToString(n) ELSE ToString(n)

\* date.strftime("%Y-%m-%d")
FmtDate(d) == ToString(d.y) \o "-" \o Pad2(d.m) \o "-" \o Pad2(d.d)

\* date.strftime("%Y-%m")
FmtMonth(d) == ToString(d.y) \o "-" \o Pad2(d.m)

\* time.strftime("%H:%M:%S")
FmtTime(t) == Pad2(t.h) \o ":" \o Pad2(t.m) \o ":" \o Pad2(t.s)

\* datetime.datetime.now().isoformat(), one tick per run
IsoNow(t) == "T" \o ToString(t)

\* round(x, 1) of a value held in hundredths, giving tenths (ties to even)
Round1(h) ==
    LET q == h \div 10
        r == h % 10
    IN  IF r > 5 \/ (r = 5 /\ q % 2 = 1) THEN q + 1 ELSE q

\* str.strip() on the note texts the model enters
Strip(t) ==
    CASE t = "  " -> ""
      [] t = " felt ok " -> "felt ok"
      [] OTHER -> t

------------------------------------------------------------------------------
\* Reading a worksheet (gspread)

Max(S) == CHOOSE x \in S : \A y \in S : y <= x

Width(rows) == IF rows = <<>> THEN 0 ELSE Max({Len(rows[i]) : i \in DOMAIN rows})

PadRow(row, w) == [j \in 1..w |-> IF j <= Len(row) THEN row[j] ELSE Str("")]

\* get_all_values: the used range as a rectangle, short rows padded with ''
get_all_values(rows) == [i \in DOMAIN rows |-> PadRow(rows[i], Width(rows))]

\* dict(zip(keys, row)): a repeated key keeps its last value
MkRecord(keys, vals) ==
    [c \in {keys[j] : j \in DOMAIN keys} |->
        vals[Max({j \in DOMAIN keys : keys[j] = c})]]

\* get_all_records: the first row gives the keys, every later row a record
get_all_records(rows) ==
    LET data == get_all_values(rows)
    IN  IF Len(data) <= 1 THEN <<>>
        ELSE [k \in 1..(Len(data) - 1) |-> MkRecord(data[1], data[k + 1])]

\* r.get(name)
Get(r, name) == IF Str(name) \in DOMAIN r THEN r[Str(name)] ELSE None

\* ws.update("<col><i>", v): one cell of row i
UpdateCell(rows, i, col, v) ==
    LET w == IF Len(rows[i]) < col THEN col ELSE Len(rows[i])
    IN  [rows EXCEPT ![i] = [PadRow(rows[i], w) EXCEPT ![col] = v]]

------------------------------------------------------------------------------
\* Input domains

Dates == {[y |-> 2026, m |-> 11, d |-> 4], [y |-> 2026, m |-> 10, d |-> 5]}
Today == [y |-> 2026, m |-> 11, d |-> 4]
TimeNow == [h |-> 8, m |-> 30, s |-> 0]

\* options of the month selectbox
MonthOptions == {FmtMonth(d) : d \in Dates}


\* The widgets' values when nothing was typed (lines 58-82, 132, 179-180)
DefaultForm ==
    [entry_date |-> Today, entry_time |-> TimeNow, food_item |-> "",
     qty |-> 10000, calories |-> 20000, protein |-> 2000, carbs |-> 3000,
     fat |-> 500, entry_notes |-> "",
     month_year_label |-> FmtMonth(Today),
     calorie_goal_input |-> 1700, protein_goal_input |-> 80,
     summary_date |-> Today, note_date |-> Today, daily_note_text |-> ""]

\* What the user types into the food entry widgets and, in the same run,
\* leaves in the goal widgets
MealInputs ==
    {[food_item |-> "", entry_date |-> Today, calories |-> 20000, protein |-> 2000,
      calorie_goal_input |-> 1700, protein_goal_input |-> 80],
     [food_item |-> "rice", entry_date |-> Today, calories |-> 25000, protein |-> 1004,
      calorie_goal_input |-> 1700, protein_goal_input |-> 80],
     [food_item |-> "rice", entry_date |-> Today, calories |-> 50004, protein |-> 2000,
      calorie_goal_input |-> 500, protein_goal_input |-> 20],
     [food_item |-> "rice", entry_date |-> [y |-> 2026, m |-> 10, d |-> 5],
      calories |-> 20000, protein |-> 2000,
      calorie_goal_input |-> 1700, protein_goal_input |-> 80]}

\* What the user types into the goal widgets
GoalInputs == {<<500, 20>>, <<1700, 80>>}
NoteTexts == {"", "  ", " felt ok "}

Buttons == {"none", "set_goal", "add", "note"}

\* The widget values a handler reads.  Nothing changes a widget within a
\* run, so a handler's inputs are drawn where the handler reads them.
GoalForms(fm) ==
    {[fm EXCEPT !.month_year_label = m, !.calorie_goal_input = g[1],
                !.protein_goal_input = g[2]] :
       m \in MonthOptions, g \in GoalInputs}

FoodForms(fm) ==
    {[fm EXCEPT !.food_item = mi.food_item, !.entry_date = mi.entry_date,
                !.calories = mi.calories, !.protein = mi.protein,
                !.calorie_goal_input = mi.calorie_goal_input,
                !.protein_goal_input = mi.protein_goal_input] :
       mi \in MealInputs}

SummaryForms(fm) == {[fm EXCEPT !.summary_date = sd] : sd \in Dates}

NoteForms(fm) == {[fm EXCEPT !.daily_note_text = t] : t \in NoteTexts}

------------------------------------------------------------------------------
\* State

VARIABLES
    spreadsheet,  \* worksheet name -> [exists, rows]; rows include row 1
    created,      \* the worksheets add_worksheet made
    pc,           \* the section of the script the run is at; "idle" between runs
    btn,          \* the button pressed for this run
    form,         \* the widget values the run has read
    now,          \* the clock, one tick per run
    msgs,         \* what this run has rendered to the user
    exc,          \* the exception that ended this run, "none" otherwise
    failed,       \* the remote call that raised in the last section, or "none"
    result,       \* what upsert_goal returned in this run
    summary,      \* what the daily summary computed in this run
    faults        \* the remote calls that have raised so far

vars ==
    <<spreadsheet, created, pc, btn, form, now, msgs, exc, failed, result, summary,
      faults>>

Absent == [exists |-> FALSE, rows |-> <<>>]
Sheet(rows) == [exists |-> TRUE, rows |-> rows]

GoalRow(month, cal, prot, t) == <<Str(month), Whole(cal), Whole(prot), Str(IsoNow(t))>>

NoSummary ==
    [state |-> "none", sum_cal |-> 0, sum_prot |-> 0, sum_carbs |-> 0,
     sum_fat |-> 0, sum_fiber |-> 0, cal_ok |-> "", prot_ok |-> ""]

\* The worksheets the spreadsheet may hold before the program first runs
InitialMeals == {Absent, Sheet(<<HeaderRow(SummaryColumnsHeader)>>)}
InitialGoals ==
    {Absent,
     Sheet(<<HeaderRow(GoalsHeader), GoalRow("2026-11", 500, 20, 0)>>),
     Sheet(<<HeaderRow(GoalsHeader), GoalRow("2026-11", 500, 20, 0),
             GoalRow("2026-11", 1700, 80, 0)>>)}

Init ==
    /\ spreadsheet \in {[n \in SheetNames |->
                            CASE n = MEALS_SHEET -> m
                              [] n = GOALS_SHEET -> g
                              [] OTHER -> Absent] :
                          m \in InitialMeals, g \in InitialGoals}
    /\ created = {}
    /\ pc = "idle"
    /\ btn = "none"
    /\ form = DefaultForm
    /\ now = 0
    /\ msgs = {}
    /\ exc = "none"
    /\ failed = "none"
    /\ result = "none"
    /\ summary = NoSummary
    /\ faults = 0

\* A remote call may raise while the fault budget lasts
FailPoints(n) == IF faults < MaxFaults THEN 0..n ELSE {0}
Raises == IF faults < MaxFaults THEN BOOLEAN ELSE {FALSE}
CountFault == faults' = IF failed' # "none" THEN faults + 1 ELSE faults

\* A user interaction: the script starts over with the widgets' values
StartRun ==
    /\ pc = "idle"
    /\ now < MaxRuns
    /\ btn' \in Buttons
    /\ form' = DefaultForm
    /\ now' = now + 1
    /\ pc' = "ensure_meals"
    /\ msgs' = {}
    /\ exc' = "none"
    /\ failed' = "none"
    /\ result' = "none"
    /\ summary' = NoSummary
    /\ UNCHANGED <<spreadsheet, created, faults>>

\* An exception nothing catches ends the run
Abort(e) == exc' = e /\ pc' = "idle"

------------------------------------------------------------------------------
\* ensure_worksheet.  f is the remote call of this invocation that raises
\* (0: none): worksheet(name), then for a missing worksheet add_worksheet and
\* append_row(header), then the closing worksheet(name).

ensure_worksheet(ss, name, header, f) ==
    IF ss[name].exists
    THEN [ss |-> ss, raised |-> f \in {1, 2}, info |-> FALSE, made |-> FALSE]
    ELSE IF f \in {1, 2}
    THEN [ss |-> ss, raised |-> TRUE, info |-> FALSE, made |-> FALSE]
    ELSE IF f = 3
    THEN [ss |-> [ss EXCEPT ![name] = Sheet(<<>>)],
          raised |-> TRUE, info |-> FALSE, made |-> TRUE]
    ELSE [ss |-> [ss EXCEPT ![name] = Sheet(<<HeaderRow(header)>>)],
          raised |-> f = 4, info |-> TRUE, made |-> TRUE]

Ensure(name, at, next) ==
    /\ pc = at
    /\ \E f \in FailPoints(4) :
          LET r == ensure_worksheet(spreadsheet, name, HeaderOf(name), f)
          IN  /\ spreadsheet' = r.ss
              /\ created' = IF r.made THEN created \cup {name} ELSE created
              /\ msgs' = IF r.info THEN msgs \cup {"worksheet_created"} ELSE msgs
              /\ failed' = IF r.raised THEN "ensure" ELSE "none"
              /\ IF r.raised THEN Abort("APIError")
                 ELSE exc' = exc /\ pc' = next
    /\ CountFault
    /\ UNCHANGED <<btn, form, now, result, summary>>

EnsureMeals == Ensure(MEALS_SHEET, "ensure_meals", "ensure_goals")
EnsureGoals == Ensure(GOALS_SHEET, "ensure_goals", "ensure_notes")
EnsureNotes == Ensure(NOTES_SHEET, "ensure_notes", "goals")

------------------------------------------------------------------------------
\* Goals logic

\* Mutant: enumerate(records, start=1)
RowNumberFromOne(k) == k

\* for i, r in enumerate(records, start=2): the sheet row of the k-th record
RowNumber(k) == k + 1

\* Mutant: the scan compares a key the records do not have
MatchIndexWrongKey(records, month_label) ==
    LET hits == {k \in DOMAIN records : Get(records[k], "month") = Str(month_label)}
    IN  IF hits = {} THEN 0 ELSE CHOOSE k \in hits : \A j \in hits : k <= j

\* The first record whose month_year equals the label; 0 when none does
MatchIndex(records, month_label) ==
    LET hits == {k \in DOMAIN records : Get(records[k], "month_year") = Str(month_label)}
    IN  IF hits = {} THEN 0 ELSE CHOOSE k \in hits : \A j \in hits : k <= j

\* upsert_goal(ws, month_label, cal_goal, prot_goal) at clock t.  f is the
\* remote call that raises (0: none): get_all_records, then update B, update
\* C, update D on a match, or append_row without one.  A call that raises
\* leaves the earlier updates in place.
upsert_goal(ss, ws, month_label, cal_goal, prot_goal, t, f) ==
    LET rows == ss[ws].rows
        k == MatchIndex(get_all_records(rows), month_label)
        i == RowNumber(k)
        b == UpdateCell(rows, i, 2, Whole(cal_goal))
        c == UpdateCell(b, i, 3, Whole(prot_goal))
        d == UpdateCell(c, i, 4, Str(IsoNow(t)))
        put(r) == [ss EXCEPT ![ws].rows = r]
        raise(s, op) == [ss |-> s, failed |-> op, result |-> "none"]
    IN  IF f = 1 THEN raise(ss, "goals_read")
        ELSE IF k # 0
        THEN CASE f = 2 -> raise(ss, "goal_update")
               [] f = 3 -> raise(put(b), "goal_update")
               [] f = 4 -> raise(put(c), "goal_update")
               [] OTHER -> [ss |-> put(d), failed |-> "none", result |-> "updated"]
        ELSE IF f = 2 THEN raise(ss, "goal_append")
        ELSE [ss |-> put(Append(rows, GoalRow(month_label, cal_goal, prot_goal, t))),
              failed |-> "none", result |-> "created"]

\* if set_goal_btn: the call is not inside a try
SetGoal ==
    /\ pc = "goals"
    /\ IF btn = "set_goal"
       THEN \E fm \in GoalForms(form), f \in FailPoints(4) :
              LET r == upsert_goal(spreadsheet, GOALS_SHEET, fm.month_year_label,
                                   fm.calorie_goal_input, fm.protein_goal_input,
                                   now, f)
              IN  /\ form' = fm
                  /\ spreadsheet' = r.ss
                  /\ result' = r.result
                  /\ failed' = r.failed
                  /\ IF r.failed # "none"
                     THEN Abort("APIError") /\ msgs' = msgs
                     ELSE /\ msgs' = msgs \cup {"goal_" \o r.result}
                          /\ exc' = exc
                          /\ pc' = "add"
       ELSE /\ pc' = "add"
            /\ failed' = "none"
            /\ UNCHANGED <<spreadsheet, result, msgs, exc, form>>
    /\ CountFault
    /\ UNCHANGED <<created, btn, now, summary>>

------------------------------------------------------------------------------
\* Auto-save food entry

\* The row the add_btn handler builds from the widgets
MealRow(fm) ==
    <<Str(FmtDate(fm.entry_date)), Str(FmtTime(fm.entry_time)), Str(fm.food_item),
      Num(Round1(fm.qty)), Num(Round1(fm.protein)), Num(Round1(fm.carbs)),
      Num(Round1(fm.fat)), Num(Round1(fm.calories)),
      Whole(fm.calorie_goal_input), Whole(fm.protein_goal_input),
      Str(fm.entry_notes)>>

\* Mutant: a row the sheet already holds is not written again
append_meal_row_dedup(ss, ws, row, fails) ==
    IF fails \/ \E i \in DOMAIN ss[ws].rows : ss[ws].rows[i] = row
    THEN ss
    ELSE [ss EXCEPT ![ws].rows = Append(@, row)]

\* Mutant: the row is inserted as the sheet's first row
append_meal_row_on_top(ss, ws, row, fails) ==
    IF fails THEN ss ELSE [ss EXCEPT ![ws].rows = <<row>> \o @]

\* append_meal_row(ws, row): ws.append_row(row); it raises or it appends
append_meal_row(ss, ws, row, fails) ==
    IF fails THEN ss ELSE [ss EXCEPT ![ws].rows = Append(@, row)]

AddFood ==
    /\ pc = "add"
    /\ IF btn = "add"
       THEN \E fm \in FoodForms(form) :
              /\ form' = fm
              /\ IF fm.food_item = ""
                 THEN /\ msgs' = msgs \cup {"enter_food_name"}
                      /\ failed' = "none"
                      /\ UNCHANGED spreadsheet
                 ELSE \E fails \in Raises :
                        /\ spreadsheet' = append_meal_row(spreadsheet, MEALS_SHEET,
                                                          MealRow(fm), fails)
                        /\ msgs' = msgs \cup {IF fails THEN "save_failed" ELSE "saved"}
                        /\ failed' = IF fails THEN "append_meal_row" ELSE "none"
       ELSE /\ failed' = "none"
            /\ UNCHANGED <<spreadsheet, msgs, form>>
    /\ pc' = "summary"
    /\ CountFault
    /\ UNCHANGED <<created, btn, now, exc, result, summary>>

------------------------------------------------------------------------------
\* Daily summary and checks

RECURSIVE SumCells(_)
SumCells(cells) == IF cells = <<>> THEN 0 ELSE Head(cells).n + SumCells(Tail(cells))

\* df[name].astype(float).sum(): KeyError without the column, ValueError on
\* a cell that is no number
ColumnSum(recs, name) ==
    IF Str(name) \notin DOMAIN recs[1] THEN [exc |-> "KeyError", sum |-> 0]
    ELSE LET cells == [k \in DOMAIN recs |-> recs[k][Str(name)]]
         IN  IF \E k \in DOMAIN cells : cells[k].kind # "num"
             THEN [exc |-> "ValueError", sum |-> 0]
             ELSE [exc |-> "none", sum |-> SumCells(cells)]

\* float(x) of a cell
FloatOf(cell) ==
    CASE cell.kind = "num" -> [exc |-> "none", v |-> cell.n]
      [] cell.kind = "none" -> [exc |-> "TypeError", v |-> 0]
      [] OTHER -> [exc |-> "ValueError", v |-> 0]

\* Mutant: meeting the calorie goal exactly counts as exceeding it
CalFlagStrict(sum_cal, cal_goal) == IF sum_cal < cal_goal THEN "ok" ELSE "exceeded"

\* cal_ok = "ok" if sum_cal <= cal_goal else "Exceeded"
CalFlag(sum_cal, cal_goal) == IF sum_cal <= cal_goal THEN "ok" ELSE "exceeded"

\* prot_ok = "ok" if prot_goal <= sum_prot else "Low"
ProtFlag(sum_prot, prot_goal) == IF prot_goal <= sum_prot THEN "ok" ELSE "low"

\* next((g for g in goals if g.get("month_year") == label), None): its index
FirstGoal(goals, label) ==
    LET hits == {k \in DOMAIN goals : Get(goals[k], "month_year") = Str(label)}
    IN  IF hits = {} THEN 0 ELSE CHOOSE k \in hits : \A j \in hits : k <= j

\* meals_df[meals_df["date"] == day_str]
RowsOnDay(recs, day_str) ==
    LET F[i \in 0..Len(recs)] ==
          IF i = 0 THEN <<>>
          ELSE IF recs[i][Str("date")] = Str(day_str)
               THEN Append(F[i - 1], recs[i])
               ELSE F[i - 1]
    IN  F[Len(recs)]

\* Lines 161-172: the goal of the summary date's month against the sums
GoalCheck(ss, date, sums, goals_fail) ==
    IF goals_fail
    THEN [summary |-> sums, msgs |-> {}, exc |-> "APIError", failed |-> "goals_fetch"]
    ELSE LET goals == get_all_records(ss[GOALS_SHEET].rows)
             g == FirstGoal(goals, FmtMonth(date))
         IN  IF g = 0
             THEN [summary |-> [sums EXCEPT !.state = "no_goal"],
                   msgs |-> {"no_goal_set"}, exc |-> "none", failed |-> "none"]
             ELSE LET cg == FloatOf(Get(goals[g], "calorie_goal"))
                      pg == FloatOf(Get(goals[g], "protein_goal"))
                  IN  IF cg.exc # "none"
                      THEN [summary |-> sums, msgs |-> {}, exc |-> cg.exc,
                            failed |-> "none"]
                      ELSE IF pg.exc # "none"
                      THEN [summary |-> sums, msgs |-> {}, exc |-> pg.exc,
                            failed |-> "none"]
                      ELSE [summary |-> [sums EXCEPT !.state = "goal",
                                           !.cal_ok = CalFlag(sums.sum_cal, cg.v),
                                           !.prot_ok = ProtFlag(sums.sum_prot, pg.v)],
                            msgs |-> {"goal_check"}, exc |-> "none",
                            failed |-> "none"]

\* Lines 134-174.  f is the remote call that raises (0: none): the Meals
\* read, then the Goals read.
daily_summary(ss, date, f) ==
    LET all_meals == IF f = 1 THEN <<>> ELSE get_all_records(ss[MEALS_SHEET].rows)
        fetch == IF f = 1 THEN {"fetch_meals_failed"} ELSE {}
        fl == IF f = 1 THEN "meals_fetch" ELSE "none"
        day_str == FmtDate(date)
        stop(st, m, e) == [summary |-> [NoSummary EXCEPT !.state = st],
                           msgs |-> fetch \cup m, exc |-> e, failed |-> fl]
    IN  IF all_meals = <<>> THEN stop("no_entries", {"no_food_entries"}, "none")
        ELSE IF Str("date") \notin DOMAIN all_meals[1] THEN stop("none", {}, "KeyError")
        ELSE LET df_day == RowsOnDay(all_meals, day_str)
             IN  IF df_day = <<>>
                 THEN stop("no_entries_for_date", {"no_entries_for_date"}, "none")
                 ELSE LET cal == ColumnSum(df_day, "calories_kcal")
                          prot == ColumnSum(df_day, "protein_g")
                          carbs == ColumnSum(df_day, "carbs_g")
                          fat == ColumnSum(df_day, "fat_g")
                          fiber == ColumnSum(df_day, "fiber_g")
                          errs == SelectSeq(<<cal.exc, prot.exc, carbs.exc, fat.exc,
                                              fiber.exc>>, LAMBDA e : e # "none")
                          sums == [NoSummary EXCEPT !.state = "sums",
                                     !.sum_cal = cal.sum, !.sum_prot = prot.sum,
                                     !.sum_carbs = carbs.sum, !.sum_fat = fat.sum,
                                     !.sum_fiber = fiber.sum]
                      IN  IF errs # <<>> THEN stop("none", {}, errs[1])
                          ELSE GoalCheck(ss, date, sums, f = 2)

DailySummary ==
    /\ pc = "summary"
    /\ \E fm \in SummaryForms(form), f \in FailPoints(2) :
          LET r == daily_summary(spreadsheet, fm.summary_date, f)
          IN  /\ form' = fm
              /\ summary' = r.summary
              /\ msgs' = msgs \cup r.msgs
              /\ failed' = r.failed
              /\ IF r.exc # "none" THEN Abort(r.exc)
                 ELSE exc' = exc /\ pc' = "notes"
    /\ CountFault
    /\ UNCHANGED <<spreadsheet, created, btn, now, result>>

------------------------------------------------------------------------------
\* Daily notes

NoteRow(fm, t) == <<Str(FmtDate(fm.note_date)), Str(fm.daily_note_text), Str(IsoNow(t))>>

\* notes_ws.append_row(...): it raises or it appends
append_note_row(ss, ws, row, fails) ==
    IF fails THEN ss ELSE [ss EXCEPT ![ws].rows = Append(@, row)]

SaveNote ==
    /\ pc = "notes"
    /\ IF btn = "note"
       THEN \E fm \in NoteForms(form) :
              /\ form' = fm
              /\ IF Strip(fm.daily_note_text) = ""
                 THEN /\ msgs' = msgs \cup {"note_is_empty"}
                      /\ failed' = "none"
                      /\ UNCHANGED spreadsheet
                 ELSE \E fails \in Raises :
                        /\ spreadsheet' = append_note_row(spreadsheet, NOTES_SHEET,
                                                          NoteRow(fm, now), fails)
                        /\ msgs' = msgs \cup {IF fails THEN "note_failed"
                                                       ELSE "note_saved"}
                        /\ failed' = IF fails THEN "append_note_row" ELSE "none"
       ELSE /\ failed' = "none"
            /\ UNCHANGED <<spreadsheet, msgs, form>>
    /\ pc' = "idle"
    /\ CountFault
    /\ UNCHANGED <<created, btn, now, exc, result, summary>>

------------------------------------------------------------------------------

Next ==
    \/ StartRun
    \/ EnsureMeals
    \/ EnsureGoals
    \/ EnsureNotes
    \/ SetGoal
    \/ AddFood
    \/ DailySummary
    \/ SaveNote

Spec == Init /\ [][Next]_vars

------------------------------------------------------------------------------
\* Properties

Goals == spreadsheet[GOALS_SHEET].rows
Meals == spreadsheet[MEALS_SHEET].rows
Notes == spreadsheet[NOTES_SHEET].rows

\* A Goal Table: the Goals worksheet under its fixed header row
GoalTable(rows) == rows # <<>> /\ rows[1] = HeaderRow(GoalsHeader)

\* No two rows below the first share the month label of column A
DistinctMonths(rows) ==
    \A i, j \in 2..Len(rows) : i # j => rows[i][1] # rows[j][1]

\* The row upsert_goal is to store for the goal widgets the run has read
WantedGoalRow ==
    GoalRow(form'.month_year_label, form'.calorie_goal_input,
            form'.protein_goal_input, now)

\* C1: upsert_goal, returning on a Goal Table with distinct month labels,
\* overwrites calorie_goal, protein_goal and created_at of exactly the row
\* whose month_year is the label, keeps the row count and every other row,
\* and returns "updated"; when no row has the label it appends exactly the
\* row (month, cal, prot, timestamp), keeps every row, and returns "created".
C1_UpsertStep ==
    (/\ pc = "goals" /\ btn = "set_goal" /\ pc' = "add"
     /\ GoalTable(Goals) /\ DistinctMonths(Goals))
    => LET hits == {i \in 2..Len(Goals) : Goals[i][1] = Str(form'.month_year_label)}
       IN  IF hits # {}
           THEN /\ result' = "updated"
                /\ Cardinality(hits) = 1
                /\ Len(Goals') = Len(Goals)
                /\ \A i \in 1..Len(Goals) :
                      Goals'[i] = IF i \in hits THEN WantedGoalRow ELSE Goals[i]
           ELSE /\ result' = "created"
                /\ Goals' = Append(Goals, WantedGoalRow)

C1_Upsert == [][C1_UpsertStep]_vars

\* An update has returned on a table that holds another month's row as well
C1_Witness ==
    /\ result = "updated"
    /\ GoalTable(Goals) /\ DistinctMonths(Goals)
    /\ Len(Goals) >= 3

\* C2: from a Goal Table in which no two rows share a month_year, no step
\* of the program leads to one in which two rows do.
C2_UniqueMonths ==
    [][(GoalTable(Goals) /\ DistinctMonths(Goals)) => DistinctMonths(Goals')]_vars

\* Two set-goal runs have built a two-month table from the empty one
C2_Witness ==
    /\ GOALS_SHEET \in created
    /\ result = "created"
    /\ GoalTable(Goals) /\ DistinctMonths(Goals)
    /\ Len(Goals) = 3

\* C3: an add-food run that reports "saved" appends exactly its row to the
\* Meal Log, even when the log already holds an equal row, and a save-note
\* run that reports "note saved" appends exactly its row to the Notes Table;
\* a submission rejected locally (empty food name, note empty after strip)
\* or whose append raises leaves the row count as it was.
C3_AppendStep ==
    /\ pc = "add" =>
          /\ IF "saved" \in msgs'
             THEN Meals' = Append(Meals, MealRow(form'))
             ELSE Len(Meals') = Len(Meals)
          /\ (btn = "add" /\ form'.food_item = "") =>
                ("enter_food_name" \in msgs' /\ "saved" \notin msgs')
          /\ (btn = "add" /\ form'.food_item # "" /\ failed' = "none") =>
                "saved" \in msgs'
          /\ failed' # "none" => ("save_failed" \in msgs' /\ "saved" \notin msgs')
    /\ pc = "notes" =>
          /\ IF "note_saved" \in msgs'
             THEN Notes' = Append(Notes, NoteRow(form', now))
             ELSE Len(Notes') = Len(Notes)
          /\ (btn = "note" /\ Strip(form'.daily_note_text) = "") =>
                ("note_is_empty" \in msgs' /\ "note_saved" \notin msgs')
          /\ (btn = "note" /\ Strip(form'.daily_note_text) # "" /\ failed' = "none") =>
                "note_saved" \in msgs'
          /\ failed' # "none" => ("note_failed" \in msgs' /\ "note_saved" \notin msgs')

C3_AppendOnly == [][C3_AppendStep]_vars

\* The same food was saved twice and the log ends in two equal rows
C3_Witness ==
    /\ "saved" \in msgs
    /\ Len(Meals) >= 3
    /\ Meals[Len(Meals)] = Meals[Len(Meals) - 1]

RECURSIVE SumColumn(_, _, _)
SumColumn(rows, I, col) ==
    IF I = {} THEN 0
    ELSE LET i == CHOOSE x \in I : TRUE
         IN  rows[i][col].n + SumColumn(rows, I \ {i}, col)

\* C7: when the summary finds a goal for the summary date's month, the goal
\* is the first Goal Table row with that month label, the sums are those of
\* the day's rows, the calorie flag is "exceeded" exactly when the summed
\* calories are above calorie_goal and "ok" otherwise, and the protein flag
\* is "low" exactly when the summed protein is below protein_goal and "ok"
\* otherwise.
C7_GoalFlags ==
    summary.state = "goal" =>
       LET hits == {i \in 2..Len(Goals) :
                      Goals[i][1] = Str(FmtMonth(form.summary_date))}
           day == {i \in 2..Len(Meals) : Meals[i][1] = Str(FmtDate(form.summary_date))}
       IN  /\ hits # {}
           /\ LET g == CHOOSE i \in hits : \A j \in hits : i <= j
                  cal_goal == Goals[g][2].n
                  prot_goal == Goals[g][3].n
              IN  /\ summary.sum_cal = SumColumn(Meals, day, 8)
                  /\ summary.sum_prot = SumColumn(Meals, day, 5)
                  /\ summary.cal_ok =
                        IF summary.sum_cal > cal_goal THEN "exceeded" ELSE "ok"
                  /\ summary.prot_ok =
                        IF summary.sum_prot < prot_goal THEN "low" ELSE "ok"

\* The day's calories and protein both meet their goals exactly
C7_Witness ==
    /\ summary.state = "goal"
    /\ summary.cal_ok = "ok" /\ summary.prot_ok = "ok"
    /\ \E i \in 2..Len(Goals) :
          /\ Goals[i][1] = Str(FmtMonth(form.summary_date))
          /\ Goals[i][2].n = summary.sum_cal
          /\ Goals[i][3].n = summary.sum_prot

\* C10: no step changes or removes a row the Meal Log already holds: every
\* row keeps its position and its cells, the goal snapshot included.
C10_MealRowsKept ==
    [][\A i \in 1..Len(Meals) : i <= Len(Meals') /\ Meals'[i] = Meals[i]]_vars

\* A goal was updated for the month of a logged meal whose snapshot differs
C10_Witness ==
    /\ result = "updated"
    /\ \E i \in 2..Len(Meals) : \E d \in Dates :
          /\ Meals[i][1] = Str(FmtDate(d))
          /\ FmtMonth(d) = form.month_year_label
          /\ Meals[i][9] # Whole(form.calorie_goal_input)

\* C4: the daily_calorie_goal and daily_protein_goal of the row add-food
\* appends equal the calorie_goal and protein_goal of the Goal Table row
\* stored for the entry's month at that moment (stated for the entries whose
\* month has a stored goal).
C4_SnapshotStep ==
    (pc = "add" /\ "saved" \in msgs' /\ GoalTable(Goals))
    => LET hits == {i \in 2..Len(Goals) :
                      Goals[i][1] = Str(FmtMonth(form'.entry_date))}
           row == Meals'[Len(Meals')]
       IN  hits # {} =>
              LET g == CHOOSE i \in hits : \A j \in hits : i <= j
              IN  row[9] = Goals[g][2] /\ row[10] = Goals[g][3]

C4_SnapshotOfStoredGoal == [][C4_SnapshotStep]_vars

\* The sections of a run that follow ensure_worksheet(name, ...) returning
AfterEnsure(name) ==
    CASE name = MEALS_SHEET ->
           {"ensure_goals", "ensure_notes", "goals", "add", "summary", "notes"}
      [] name = GOALS_SHEET -> {"ensure_notes", "goals", "add", "summary", "notes"}
      [] OTHER -> {"goals", "add", "summary", "notes"}

\* C5: once ensure_worksheet has returned a handle for a worksheet the
\* program created (in this call or an earlier one, completed or not), the
\* worksheet exists, its first row is the given header, and no other row is.
C5_EnsuredHeader ==
    \A name \in created :
       pc \in AfterEnsure(name) =>
          LET rows == spreadsheet[name].rows
              header == HeaderRow(HeaderOf(name))
          IN  /\ spreadsheet[name].exists
              /\ rows # <<>>
              /\ rows[1] = header
              /\ Cardinality({i \in DOMAIN rows : rows[i] = header}) = 1

\* C6: the summary of a date that has Meal Log rows under the declared
\* header, in a month without a goal row, ends with the sums and the "no
\* goal set" state and without an exception (no remote call raising).
C6_SummaryStep ==
    (/\ pc = "summary" /\ failed' = "none"
     /\ Meals # <<>> /\ Meals[1] = HeaderRow(MealsHeader)
     /\ \E i \in 2..Len(Meals) : Meals[i][1] = Str(FmtDate(form'.summary_date))
     /\ \A i \in 2..Len(Goals) : Goals[i][1] # Str(FmtMonth(form'.summary_date)))
    => (summary'.state = "no_goal" /\ exc' = "none")

C6_MissingGoalSummary == [][C6_SummaryStep]_vars

\* C8: a remote write that raises is reported as an error message and does
\* not end the run.
C8_WriteFailureSurfaced ==
    failed \in {"append_meal_row", "append_note_row", "goal_update", "goal_append"}
    => /\ exc = "none"
       /\ msgs \cap {"save_failed", "note_failed", "goal_failed"} # {}

\* C9: a table read of the daily summary that raises is reported and leaves
\* the run going on to the notes section.
C9_ReadFailureDegrades ==
    failed \in {"meals_fetch", "goals_fetch"} => (exc = "none" /\ pc = "notes")

====
